---- MODULE Spec2Model ----
(***************************************************************************)
(* Model of cvs::common::CVSConfig (config.hpp): the per-schema descriptor *)
(* registry, the seven FieldDescriptor variants (set / describe), the make *)
(* overloads and describe().                                               *)
(*                                                                         *)
(* A property tree (boost::property_tree::ptree) is a record               *)
(*   [data |-> string, kids |-> sequence of [key, node]]                   *)
(* where node is again a property tree.  Every scalar field has C++ type   *)
(* int; leaf data are strings and are converted by the stream translator.  *)
(* An error is the chain of nested exceptions, outermost first.            *)
(***************************************************************************)
EXTENDS Integers, Sequences, FiniteSets, TLC

VARIABLES registry, pc, frame, setLog, out, text

vars == <<registry, pc, frame, setLog, out, text>>

\* Longest child list generated under a vector key.
MaxVec == 2

\* ------------------------------------------------------------------------
\* The schema types declared with CVS_CONFIG / CVS_FIELD* in this model.
\* A field is [name, kind, type, def]: kind selects the FieldDescriptor
\* specialisation, type is the nested schema (or ""), def the declared
\* default (CVS_FIELD_DEF).
\* ------------------------------------------------------------------------
Field(n, k, t, d) == [name |-> n, kind |-> k, type |-> t, def |-> d]

SchemaOrder == <<"Limits", "Tags", "Net", "Server", "Job", "App">>

Schemas == {SchemaOrder[i] : i \in 1..Len(SchemaOrder)}

Fields(S) ==
    CASE S = "Limits" -> << Field("max", "default", "", 8),
                            Field("min", "optional", "", 0) >>
      [] S = "Tags"   -> << Field("items", "vector", "", 0) >>
      [] S = "Net"    -> << Field("limits", "nested", "Limits", 0) >>
      [] S = "Server" -> << Field("port", "default", "", 8),
                            Field("host", "simple", "", 0),
                            Field("tags", "optvector", "", 0) >>
      [] S = "Job"    -> << Field("labels", "nested", "Tags", 0),
                            Field("prio", "optional", "", 0) >>
      [] S = "App"    -> << Field("net", "nested", "Net", 0),
                            Field("extra", "optnested", "Limits", 0) >>

\* ------------------------------------------------------------------------
\* Property trees
\* ------------------------------------------------------------------------
Data == {"1", "2", "x"}

VecKeys == {"", "k"}

Properties0 == [data |-> "", kids |-> <<>>]

Leaf(d) == [data |-> d, kids |-> <<>>]

\* ptree::find: position of the first child named key, 0 for not_found().
find(pt, key) ==
    IF \E i \in 1..Len(pt.kids) : pt.kids[i].key = key
    THEN CHOOSE i \in 1..Len(pt.kids) :
            /\ pt.kids[i].key = key
            /\ \A j \in 1..(i - 1) : pt.kids[j].key # key
    ELSE 0

\* The stream translator for int: a value, or nothing when the text is not
\* a number (boost::optional<int>, modelled as a sequence of length <= 1).
get_value_optional(node) ==
    CASE node.data = "1" -> <<1>>
      [] node.data = "2" -> <<2>>
      [] OTHER -> <<>>

\* ptree_bad_path / ptree_bad_data: the innermost element of an error chain.
bad_path(key) == <<[kind |-> "ptree_bad_path", name |-> key]>>

bad_data(key) == <<[kind |-> "ptree_bad_data", name |-> key]>>

\* Result of an expression that may throw: a value v, or a thrown chain.
Ret(v) == [thrown |-> FALSE, v |-> v, err |-> <<>>]

Throw(e) == [thrown |-> TRUE, v |-> <<>>, err |-> e]

\* get written with the defaulting overload: a missing key yields T{}.
get_defaulting(pt, key) ==
    IF find(pt, key) = 0 THEN Ret(0)
    ELSE LET o == get_value_optional(pt.kids[find(pt, key)].node)
         IN  IF o = <<>> THEN Throw(bad_data(key)) ELSE Ret(o[1])

\* ptree.get<T>(key) = get_child(key).get_value<T>(): throws when the key
\* is missing and when the data do not convert.
get(pt, key) ==
    IF find(pt, key) = 0 THEN Throw(bad_path(key))
    ELSE LET o == get_value_optional(pt.kids[find(pt, key)].node)
         IN  IF o = <<>> THEN Throw(bad_data(key)) ELSE Ret(o[1])

\* ptree.get_optional<T>(key): empty when the key is missing and also when
\* the data do not convert (get_value_optional never throws).
get_optional(pt, key) ==
    IF find(pt, key) = 0 THEN <<>>
    ELSE get_value_optional(pt.kids[find(pt, key)].node)

\* ptree.get(key, default) = get_optional<T>(key).get_value_or(default).
get_or(pt, key, dflt) ==
    IF get_optional(pt, key) = <<>> THEN dflt ELSE get_optional(pt, key)[1]

\* values.insert(values.begin(), v)
push_front(values, v) == <<v>> \o values

\* values.push_back(v)
push_back(values, v) == Append(values, v)

\* The loop over the children of a vector subtree: get_value<T>() of each
\* child in tree order; the first child that does not convert throws.
RECURSIVE Values(_, _, _, _)
Values(kids, i, values, key) ==
    IF i > Len(kids) THEN Ret(values)
    ELSE LET o == get_value_optional(kids[i].node)
         IN  IF o = <<>> THEN Throw(bad_data(key))
             ELSE Values(kids, i + 1, push_back(values, o[1]), key)

\* ------------------------------------------------------------------------
\* Descriptor flags
\* ------------------------------------------------------------------------
has_default(f) == f.kind = "default"

is_optional(f) == f.kind \in {"optional", "vector", "optvector", "optnested"}

\* ------------------------------------------------------------------------
\* Instances and outcomes
\* ------------------------------------------------------------------------
\* Marks an int member that no set has assigned yet.
Indet == -1

\* `Self result;`: optionals and vectors are empty, nested members are
\* default-constructed, int members are not initialised.
RECURSIVE DefaultInstance(_)
DefaultInstance(S) ==
    [n \in {Fields(S)[i].name : i \in 1..Len(Fields(S))} |->
        LET f == CHOOSE g \in {Fields(S)[i] : i \in 1..Len(Fields(S))} : g.name = n
        IN  CASE f.kind \in {"simple", "default"} -> Indet
              [] f.kind = "nested" -> DefaultInstance(f.type)
              [] OTHER -> <<>>]

Success(v) == [ok |-> TRUE, val |-> <<v>>, err |-> <<>>]

\* CVS_RETURN_WITH_NESTED(ex): the exception in flight is nested into ex and
\* the chain is returned as a failed outcome.
ReturnWithNested(msg, e) == [ok |-> FALSE, val |-> <<>>, err |-> <<msg>> \o e]

NoOutcome == [ok |-> FALSE, val |-> <<>>, err |-> <<>>]

\* outcome.value(): the value, or the stored chain is thrown.
value(o) == IF o.ok THEN Ret(o.val[1]) ELSE Throw(o.err)

CantInit(S) == [kind |-> "Can't init config", name |-> S]

\* A catch block that swallows the exception and returns the instance as
\* far as it was populated.
CatchInitPartial(S, inst, e) == [ok |-> TRUE, val |-> <<inst>>, err |-> <<>>]

\* The catch block of make(const Properties&).
CatchInit(S, inst, e) == ReturnWithNested(CantInit(S), e)

\* config.*pointer = v
Assign(inst, f, v) == Ret([inst EXCEPT ![f.name] = v])

\* ------------------------------------------------------------------------
\* FieldDescriptor<...>::set, one operator per specialisation.  reg is the
\* registry (descriptors() of every schema type) as the call observes it.
\* ------------------------------------------------------------------------
RECURSIVE make(_, _, _)
RECURSIVE RunSets(_, _, _, _, _)
RECURSIVE set(_, _, _, _)

\* Simple field
set_simple(f, inst, pt) ==
    LET r == get(pt, f.name)
    IN  IF r.thrown THEN r ELSE Assign(inst, f, r.v)

\* Field with default value
set_default(f, inst, pt) == Assign(inst, f, get_or(pt, f.name, f.def))

\* Optional field: the member is assigned only when a value was read.
set_optional(f, inst, pt) ==
    LET val == get_optional(pt, f.name)
    IN  IF val # <<>> THEN Assign(inst, f, <<val[1]>>) ELSE Ret(inst)

\* Vector field: get_child throws when the key is missing.
set_vector(f, inst, pt) ==
    IF find(pt, f.name) = 0 THEN Throw(bad_path(f.name))
    ELSE LET r == Values(pt.kids[find(pt, f.name)].node.kids, 1, <<>>, f.name)
         IN  IF r.thrown THEN r ELSE Assign(inst, f, r.v)

\* Optional vector field
set_optvector(f, inst, pt) ==
    IF find(pt, f.name) # 0
    THEN LET r == Values(pt.kids[find(pt, f.name)].node.kids, 1, <<>>, f.name)
         IN  IF r.thrown THEN r ELSE Assign(inst, f, <<r.v>>)
    ELSE Assign(inst, f, <<>>)

\* The can_be_default loop of the nested-config set over T::descriptors().
can_be_default(T, reg) ==
    \A i \in 1..Len(reg[T]) : has_default(reg[T][i]) \/ is_optional(reg[T][i])

\* Nested config
set_nested(f, inst, pt, reg) ==
    LET sub == IF can_be_default(f.type, reg)
               THEN IF find(pt, f.name) # 0
                    THEN Ret(pt.kids[find(pt, f.name)].node)
                    ELSE Ret(Properties0)
               ELSE IF find(pt, f.name) # 0
                    THEN Ret(pt.kids[find(pt, f.name)].node)
                    ELSE Throw(bad_path(f.name))
    IN  IF sub.thrown THEN sub
        ELSE LET r == value(make(f.type, sub.v, reg))
             IN  IF r.thrown THEN r ELSE Assign(inst, f, r.v)

\* Optional nested config
set_optnested(f, inst, pt, reg) ==
    IF find(pt, f.name) # 0
    THEN LET r == value(make(f.type, pt.kids[find(pt, f.name)].node, reg))
         IN  IF r.thrown THEN r ELSE Assign(inst, f, <<r.v>>)
    ELSE Assign(inst, f, <<>>)

\* Virtual dispatch of BaseFieldDescriptor::set.
set(f, inst, pt, reg) ==
    CASE f.kind = "simple"    -> set_simple(f, inst, pt)
      [] f.kind = "default"   -> set_default(f, inst, pt)
      [] f.kind = "optional"  -> set_optional(f, inst, pt)
      [] f.kind = "vector"    -> set_vector(f, inst, pt)
      [] f.kind = "optvector" -> set_optvector(f, inst, pt)
      [] f.kind = "nested"    -> set_nested(f, inst, pt, reg)
      [] f.kind = "optnested" -> set_optnested(f, inst, pt, reg)

\* The loop of make(const Properties&) from descriptor i on; a throwing set
\* leaves the loop.
RunSets(S, i, inst, pt, reg) ==
    IF i > Len(reg[S]) THEN Ret(inst)
    ELSE LET r == set(reg[S][i], inst, pt, reg)
         IN  IF r.thrown THEN r ELSE RunSets(S, i + 1, r.v, pt, reg)

\* make(const Properties&) as one call (used for nested schemas).
make(S, pt, reg) ==
    LET r == RunSets(S, 1, DefaultInstance(S), pt, reg)
    IN  IF r.thrown THEN CatchInit(S, <<>>, r.err) ELSE Success(r.v)

\* ------------------------------------------------------------------------
\* describe.  A text is a sequence of tokens: "nl" is '\n', "sp" is ' ',
\* "line" is the formatted columns of one field (name, base type, the
\* Optional / Default: column, description), "hdr" is "<name> fields:",
\* "title" is the "<Name>\nDescription: ...\nFields:" head.
\* ------------------------------------------------------------------------
Tok(t, n, note) == [t |-> t, f |-> n, note |-> note]

NL == <<Tok("nl", "", "")>>

SP == <<Tok("sp", "", "")>>

\* The Optional / Default: column each specialisation passes to fmt::format.
Note(f) ==
    CASE f.kind = "default" -> "Default: "
      [] f.kind \in {"optional", "optvector", "optnested"} -> "Optional"
      [] OTHER -> ""

RECURSIVE describeFields(_, _, _)
RECURSIVE FieldDescribe(_, _, _)

\* FieldDescriptor<...>::describe(prefix)
FieldDescribe(f, prefix, reg) ==
    prefix \o <<Tok("line", f.name, Note(f))>> \o
    ( IF f.kind \in {"nested", "optnested"}
      THEN NL \o prefix \o <<Tok("hdr", f.name, "")>> \o
           describeFields(f.type, NL \o prefix \o SP, reg)
      ELSE <<>> )

RECURSIVE DescribeFrom(_, _, _, _)
DescribeFrom(S, i, prefix, reg) ==
    IF i > Len(reg[S]) THEN <<>>
    ELSE prefix \o FieldDescribe(reg[S][i], SP, reg) \o DescribeFrom(S, i + 1, prefix, reg)

\* describeFields(prefix): prefix.data() + f->describe(" ") for each f.
describeFields(S, prefix, reg) == DescribeFrom(S, 1, prefix, reg)

\* describe()
describe(S, reg) == <<Tok("title", S, "")>> \o describeFields(S, NL, reg)

\* ------------------------------------------------------------------------
\* Inputs: the property trees a caller passes, and the sources it loads.
\* ------------------------------------------------------------------------
VecEntries == {[key |-> k, node |-> Leaf(d)] : k \in VecKeys, d \in Data}

VecKids == UNION {[1..n -> VecEntries] : n \in 0..MaxVec}

RECURSIVE TreesOf(_)
RECURSIVE KidsOf(_, _)
RECURSIVE NodesFor(_)

\* The nodes generated under the key of field f.
NodesFor(f) ==
    CASE f.kind \in {"simple", "default", "optional"} -> {Leaf(d) : d \in Data}
      [] f.kind \in {"vector", "optvector"} -> {[data |-> "", kids |-> k] : k \in VecKids}
      [] OTHER -> TreesOf(f.type)

\* Child lists for schema S: each field's key is absent or present once.
KidsOf(S, i) ==
    IF i > Len(Fields(S)) THEN {<<>>}
    ELSE LET f == Fields(S)[i]
             opts == {<<>>} \cup {<<[key |-> f.name, node |-> n]>> : n \in NodesFor(f)}
         IN  {a \o b : a \in opts, b \in KidsOf(S, i + 1)}

TreesOf(S) == {[data |-> "", kids |-> k] : k \in KidsOf(S, 1)}

TreeInputs == UNION {{[schema |-> S, pt |-> t] : t \in TreesOf(S)} : S \in Schemas}

SourceKinds == {"stream", "string", "file"}

\* A source is text that the parser accepts (and then yields tree pt) or not.
SourceInputs ==
    UNION {{[schema |-> S, kind |-> k, parses |-> TRUE, pt |-> t] : t \in TreesOf(S)}
           \cup {[schema |-> S, kind |-> k, parses |-> FALSE, pt |-> Properties0]}
           : S \in Schemas, k \in SourceKinds}

\* CVSConfigBase::load: the parsed tree or the parser's error.
load(src) ==
    IF src.parses THEN [ok |-> TRUE, val |-> <<src.pt>>, err |-> <<>>]
    ELSE [ok |-> FALSE, val |-> <<>>, err |-> <<[kind |-> "ParseError", name |-> ""]>>]

CantParse(kind) == [kind |-> "Can't parse config from", name |-> kind]

\* The catch block of the stream overload pasted into the other overloads.
CatchParseAsStream(kind, e) == ReturnWithNested(CantParse("stream"), e)

\* The catch block of make(istream&) / make(string) / make(path).
CatchParse(kind, e) == ReturnWithNested(CantParse(kind), e)

\* ------------------------------------------------------------------------
\* State machine
\* ------------------------------------------------------------------------
NoFrame ==
    [op |-> "none", schema |-> "", via |-> "", parsed |-> FALSE,
     pt |-> Properties0, idx |-> 0, inst |-> <<>>]

\* descriptors(): the function-local static list starts empty.
Init ==
    /\ registry = [S \in Schemas |-> <<>>]
    /\ pc = "idle"
    /\ frame = NoFrame
    /\ setLog = <<>>
    /\ out = NoOutcome
    /\ text = <<>>

\* Static initialisation has run every field's descriptor constructor.
Started == \A S \in Schemas : Len(registry[S]) = Len(Fields(S))

\* BaseFieldDescriptor(): Self::descriptors().push_back(this)
Register(list, f) == Append(list, f)

\* Dynamic initialisation of the next field_name##_descriptor (CVS_FIELD_BASE):
\* schema types in definition order, fields in declaration order.
StaticInit ==
    /\ ~Started
    /\ LET k == CHOOSE i \in 1..Len(SchemaOrder) :
                    /\ Len(registry[SchemaOrder[i]]) < Len(Fields(SchemaOrder[i]))
                    /\ \A j \in 1..(i - 1) :
                          Len(registry[SchemaOrder[j]]) = Len(Fields(SchemaOrder[j]))
           S == SchemaOrder[k]
       IN  registry' = [registry EXCEPT
                          ![S] = Register(@, Fields(S)[Len(registry[S]) + 1])]
    /\ UNCHANGED <<pc, frame, setLog, out, text>>

\* Entry of make(const Properties&): `Self result;`
BeginMake(S, pt, via) ==
    /\ pc = "idle"
    /\ pc' = "making"
    /\ frame' = [op |-> "make", schema |-> S, via |-> via, parsed |-> TRUE,
                 pt |-> pt, idx |-> 1, inst |-> DefaultInstance(S)]
    /\ setLog' = <<>>
    /\ out' = NoOutcome
    /\ UNCHANGED <<registry, text>>

\* make(const Properties&) called from main
MakeTreeCall ==
    /\ pc = "idle"
    /\ Started
    /\ \E c \in TreeInputs : BeginMake(c.schema, c.pt, "tree")

\* make(istream&) / make(const std::string&) / make(const path&) called from
\* main: make(*load(source)), a failed load ending in the catch block.
MakeSourceCall ==
    /\ pc = "idle"
    /\ Started
    /\ \E c \in SourceInputs :
          IF load(c).ok
          THEN BeginMake(c.schema, load(c).val[1], c.kind)
          ELSE /\ pc = "idle"
               /\ pc' = "done"
               /\ frame' = [NoFrame EXCEPT !.op = "make", !.schema = c.schema,
                                           !.via = c.kind]
               /\ setLog' = <<>>
               /\ out' = CatchParse(c.kind, load(c).err)
               /\ UNCHANGED <<registry, text>>

\* One iteration of the loop in make(const Properties&): field->set(result,
\* data); an exception ends in the catch block.
FieldSet ==
    /\ pc = "making"
    /\ frame.idx <= Len(registry[frame.schema])
    /\ LET f == registry[frame.schema][frame.idx]
           r == set(f, frame.inst, frame.pt, registry)
       IN  IF r.thrown
           THEN /\ out' = CatchInit(frame.schema, frame.inst, r.err)
                /\ pc' = "done"
                /\ setLog' = Append(setLog, [name |-> f.name, ok |-> FALSE])
                /\ UNCHANGED frame
           ELSE /\ frame' = [frame EXCEPT !.idx = @ + 1, !.inst = r.v]
                /\ setLog' = Append(setLog, [name |-> f.name, ok |-> TRUE])
                /\ UNCHANGED <<pc, out>>
    /\ UNCHANGED <<registry, text>>

\* `return result;` after the loop
MakeReturn ==
    /\ pc = "making"
    /\ frame.idx > Len(registry[frame.schema])
    /\ out' = Success(frame.inst)
    /\ pc' = "done"
    /\ UNCHANGED <<registry, frame, setLog, text>>

DoDescribe(S) ==
    /\ pc = "idle"
    /\ pc' = "done"
    /\ frame' = [NoFrame EXCEPT !.op = "describe", !.schema = S]
    /\ text' = describe(S, registry)
    /\ setLog' = <<>>
    /\ out' = NoOutcome
    /\ UNCHANGED registry

\* describe() called from main
DescribeCall ==
    /\ pc = "idle"
    /\ Started
    /\ \E S \in Schemas : DoDescribe(S)

\* The caller has taken the result of the call; the next call can start.
Finish ==
    /\ pc = "done"
    /\ pc' = "idle"
    /\ frame' = NoFrame
    /\ setLog' = <<>>
    /\ out' = NoOutcome
    /\ text' = <<>>
    /\ UNCHANGED registry

Next ==
    \/ StaticInit
    \/ MakeTreeCall
    \/ MakeSourceCall
    \/ FieldSet
    \/ MakeReturn
    \/ DescribeCall
    \/ Finish

Spec == Init /\ [][Next]_vars

\* make(const Properties&) called while static initialisation is still
\* running: from a dynamic initialiser that is not ordered after the
\* descriptors, or from a thread started by one.
EarlyMakeCall ==
    /\ pc = "idle"
    /\ ~Started
    /\ \E c \in TreeInputs : BeginMake(c.schema, c.pt, "tree")

\* describe() called while static initialisation is still running.
EarlyDescribeCall ==
    /\ pc = "idle"
    /\ ~Started
    /\ \E S \in Schemas : DoDescribe(S)

NextStartup ==
    \/ StaticInit
    \/ EarlyMakeCall
    \/ EarlyDescribeCall
    \/ FieldSet
    \/ MakeReturn
    \/ Finish

SpecStartup == Init /\ [][NextStartup]_vars

\* ------------------------------------------------------------------------
\* Properties
\* ------------------------------------------------------------------------
\* A make call on a tree (given, or loaded from a source that parsed).
InMake == frame.op = "make" /\ frame.parsed

\* The descriptor whose set was the i-th invoked by the running make call.
Logged(i) == registry[frame.schema][i]

Present(f) == find(frame.pt, f.name) # 0

NodeOf(f) == frame.pt.kids[find(frame.pt, f.name)].node

Convertible(node) == get_value_optional(node) # <<>>

Converted(node) == get_value_optional(node)[1]

\* C2: when make(tree) of schema S has returned and the tree lacks the key
\* of a required scalar field of S, the outcome is a failure without a
\* value whose outermost message is "Can't init config S".
C2_RequiredMissingFails ==
    ( /\ pc = "done"
      /\ InMake
      /\ \E i \in 1..Len(Fields(frame.schema)) :
            /\ Fields(frame.schema)[i].kind = "simple"
            /\ ~Present(Fields(frame.schema)[i]) )
    => ( /\ ~out.ok
         /\ out.val = <<>>
         /\ Len(out.err) >= 2
         /\ out.err[1] = CantInit(frame.schema) )

C2_Witness ==
    /\ pc = "done"
    /\ InMake
    /\ frame.schema = "Server"
    /\ ~Present(Fields("Server")[2])
    /\ Present(Fields("Server")[1])
    /\ ~out.ok
    /\ out.err = <<CantInit("Server")>> \o bad_path("host")

\* C3: make invokes set in descriptors() order on one fresh instance, stops
\* at the first set that fails, then returns a failure carrying no
\* instance; it returns a value only when every set succeeded.
C3_MakeAtomic ==
    InMake =>
      LET D == registry[frame.schema]
          n == Len(setLog)
      IN  /\ n <= Len(D)
          /\ \A i \in 1..n : setLog[i].name = D[i].name
          /\ \A i \in 1..(n - 1) : setLog[i].ok
          /\ (pc = "making" /\ n = 0) => frame.inst = DefaultInstance(frame.schema)
          /\ (pc = "making") => (\A i \in 1..n : setLog[i].ok)
          /\ (pc = "done" /\ out.ok) =>
                /\ n = Len(D)
                /\ \A i \in 1..n : setLog[i].ok
                /\ out.val = <<frame.inst>>
          /\ (pc = "done" /\ ~out.ok) =>
                /\ n >= 1
                /\ ~setLog[n].ok
                /\ out.val = <<>>

C3_Witness ==
    /\ pc = "done"
    /\ InMake
    /\ ~out.ok
    /\ Len(setLog) = 2
    /\ setLog[1].ok
    /\ Len(registry[frame.schema]) = 3

\* C8: once the set of a vector field (either variant) has run on a tree
\* where the key is present and every child converts, set succeeded and
\* the collection has one element per child, element j being the converted
\* value of the j-th child, whatever the child keys are.
C8_VectorOrder ==
    InMake =>
      \A i \in 1..Len(setLog) :
        LET f == Logged(i) IN
        ( /\ f.kind \in {"vector", "optvector"}
          /\ Present(f)
          /\ \A j \in 1..Len(NodeOf(f).kids) : Convertible(NodeOf(f).kids[j].node) )
        => LET expected == [j \in 1..Len(NodeOf(f).kids) |->
                               Converted(NodeOf(f).kids[j].node)]
           IN  /\ setLog[i].ok
               /\ frame.inst[f.name] =
                    (IF f.kind = "vector" THEN expected ELSE <<expected>>)

C8_Witness ==
    /\ pc = "done"
    /\ InMake
    /\ out.ok
    /\ frame.schema = "Tags"
    /\ Present(Fields("Tags")[1])
    /\ Len(NodeOf(Fields("Tags")[1]).kids) = 2
    /\ NodeOf(Fields("Tags")[1]).kids[1].key = "k"
    /\ NodeOf(Fields("Tags")[1]).kids[2].key = ""
    /\ out.val[1]["items"] = <<2, 1>>

C8_WitnessOptional ==
    /\ pc = "done"
    /\ InMake
    /\ out.ok
    /\ frame.schema = "Server"
    /\ out.val[1]["tags"] = << <<2, 1>> >>

\* C6 as stated: every failed outcome of a make overload carries, somewhere
\* in its chain, the context naming the schema type being built, parse
\* failures of the source included.
C6_EveryFailureNamesSchema ==
    (pc = "done" /\ frame.op = "make" /\ ~out.ok)
    => \E i \in 1..Len(out.err) : out.err[i] = CantInit(frame.schema)

\* C6 amended: every make overload returns an outcome; it is a failure
\* whenever the source does not parse or a set fails.  A field failure is
\* wrapped outermost in "Can't init config <schema>"; a parse failure is
\* wrapped outermost in "Can't parse config from <stream|string|file>" and
\* no message of its chain names the schema type.
C6_FailuresWrapped ==
    (pc = "done" /\ frame.op = "make") =>
      /\ out.ok <=> (Len(out.val) = 1 /\ out.err = <<>>)
      /\ ~out.ok <=> (out.val = <<>> /\ Len(out.err) >= 2)
      /\ ~frame.parsed =>
            /\ ~out.ok
            /\ frame.via \in SourceKinds
            /\ out.err[1] = CantParse(frame.via)
            /\ \A i \in 1..Len(out.err) : out.err[i].kind # CantInit(frame.schema).kind
      /\ (frame.parsed /\ \E i \in 1..Len(setLog) : ~setLog[i].ok) =>
            /\ ~out.ok
            /\ out.err[1] = CantInit(frame.schema)
      /\ (frame.parsed /\ ~out.ok) => out.err[1] = CantInit(frame.schema)

C6_Witness ==
    /\ pc = "done"
    /\ frame.op = "make"
    /\ ~frame.parsed
    /\ frame.via = "file"
    /\ frame.schema = "Server"
    /\ out.err = <<CantParse("file"), [kind |-> "ParseError", name |-> ""]>>

\* A field failure reached through a source overload.
C6_WitnessField ==
    /\ pc = "done"
    /\ frame.op = "make"
    /\ frame.parsed
    /\ frame.via = "string"
    /\ ~out.ok
    /\ out.err[1] = CantInit(frame.schema)

\* The instance a schema type all of whose fields are defaulted or empty
\* when absent is built to from an empty subtree.
RECURSIVE BuiltFromEmpty(_)
BuiltFromEmpty(T) ==
    [n \in {Fields(T)[i].name : i \in 1..Len(Fields(T))} |->
        LET f == CHOOSE g \in {Fields(T)[i] : i \in 1..Len(Fields(T))} : g.name = n
        IN  CASE f.kind = "default" -> f.def
              [] f.kind = "nested" -> BuiltFromEmpty(f.type)
              [] OTHER -> <<>>]

\* C1: once the set of a non-optional nested-schema field of type T has run
\* on a tree that lacks the field's key, and has_default() or is_optional()
\* holds for every descriptor of T, set succeeded and the field holds the T
\* instance built from an empty subtree.
C1_FlaggedNestedDefaults ==
    InMake =>
      \A i \in 1..Len(setLog) :
        LET f == Logged(i) IN
        ( /\ f.kind = "nested"
          /\ ~Present(f)
          /\ \A j \in 1..Len(Fields(f.type)) :
                has_default(Fields(f.type)[j]) \/ is_optional(Fields(f.type)[j]) )
        => ( /\ setLog[i].ok
             /\ frame.inst[f.name] = BuiltFromEmpty(f.type) )

\* A field tolerates absence when its set succeeds without its key: a
\* defaulted or optional scalar, an optional vector, an optional nested
\* schema, and a nested schema all of whose fields recursively do.
RECURSIVE Tolerates(_)
Tolerates(f) ==
    \/ f.kind \in {"default", "optional", "optvector", "optnested"}
    \/ /\ f.kind = "nested"
       /\ \A j \in 1..Len(Fields(f.type)) : Tolerates(Fields(f.type)[j])

\* C10: once the set of a non-optional nested-schema field of type T has
\* run on a tree that lacks the field's key, and every field of T tolerates
\* absence (a nested-schema field of T counting when its own fields
\* recursively do), set succeeded and the field holds the T instance built
\* from an empty subtree.
C10_RecursiveNestedDefaults ==
    InMake =>
      \A i \in 1..Len(setLog) :
        LET f == Logged(i) IN
        ( /\ f.kind = "nested"
          /\ ~Present(f)
          /\ \A j \in 1..Len(Fields(f.type)) : Tolerates(Fields(f.type)[j]) )
        => ( /\ setLog[i].ok
             /\ frame.inst[f.name] = BuiltFromEmpty(f.type) )

\* C4: once the set of an optional scalar field has run, the field is empty
\* when the key is absent and holds the converted value when the key is
\* present and converts; when the key is present and does not convert, set
\* failed and make returns a failed outcome.
C4_OptionalScalar ==
    InMake =>
      \A i \in 1..Len(setLog) :
        LET f == Logged(i) IN
        f.kind = "optional" =>
          /\ ~Present(f) => (setLog[i].ok /\ frame.inst[f.name] = <<>>)
          /\ (Present(f) /\ Convertible(NodeOf(f))) =>
                (setLog[i].ok /\ frame.inst[f.name] = <<Converted(NodeOf(f))>>)
          /\ (Present(f) /\ ~Convertible(NodeOf(f))) =>
                (~setLog[i].ok /\ (pc = "done" => ~out.ok))

\* C9: once the set of a scalar field with a declared default has run, a
\* key that is present but does not convert made set fail (and make return
\* a failed outcome); the declared default is assigned only when the key is
\* absent.
C9_DefaultScalarBadValueFails ==
    InMake =>
      \A i \in 1..Len(setLog) :
        LET f == Logged(i) IN
        f.kind = "default" =>
          /\ ~Present(f) => (setLog[i].ok /\ frame.inst[f.name] = f.def)
          /\ (Present(f) /\ Convertible(NodeOf(f))) =>
                (setLog[i].ok /\ frame.inst[f.name] = Converted(NodeOf(f)))
          /\ (Present(f) /\ ~Convertible(NodeOf(f))) =>
                (~setLog[i].ok /\ (pc = "done" => ~out.ok))

\* C5: every make or describe call, whenever it starts, iterates a
\* descriptor list holding each declared field's descriptor exactly once,
\* in declaration order.
C5_CallsSeeWholeList ==
    frame.op \in {"make", "describe"} => registry[frame.schema] = Fields(frame.schema)

\* The nesting depth of every field line of describe(S), in output order.
RECURSIVE Outline(_, _)
RECURSIVE OutlineFrom(_, _, _)
OutlineFrom(S, i, d) ==
    IF i > Len(Fields(S)) THEN <<>>
    ELSE LET f == Fields(S)[i]
         IN  <<d>> \o
             (IF f.kind \in {"nested", "optnested"} THEN Outline(f.type, d + 1) ELSE <<>>) \o
             OutlineFrom(S, i + 1, d)

Outline(S, d) == OutlineFrom(S, 1, d)

\* The number of spaces in front of every field line of a text, in order.
RECURSIVE IndentsOf(_, _, _)
IndentsOf(txt, i, run) ==
    IF i > Len(txt) THEN <<>>
    ELSE CASE txt[i].t = "sp"   -> IndentsOf(txt, i + 1, run + 1)
           [] txt[i].t = "line" -> <<run>> \o IndentsOf(txt, i + 1, 0)
           [] OTHER             -> IndentsOf(txt, i + 1, 0)

MaxLevelWidth == 4

\* C7: in the output of describe() there is one indentation level (a fixed
\* positive number of spaces) such that every field line at nesting depth d
\* is indented d levels deeper than the top-level field lines, so each
\* nested schema's lines are exactly one level deeper than their parent's.
C7_IndentPerDepth ==
    (pc = "done" /\ frame.op = "describe") =>
      LET ind == IndentsOf(text, 1, 0)
          dep == Outline(frame.schema, 0)
      IN  /\ Len(ind) = Len(dep)
          /\ \E L \in 1..MaxLevelWidth :
                \A k \in 1..Len(ind) : ind[k] = ind[1] + L * dep[k]

====
